---------------------------- MODULE Spec2Model ----------------------------
(* Model of the two Flask/SQLAlchemy applications of the repository:       *)
(*   src/C216-PROJETO_FINAL/sistema_loja.py   (game store: games,          *)
(*       customers, rentals, session cart, checkout)                       *)
(*   src/backend/sistema_faculdade.py         (student registration)       *)
(* The state is the committed content of the database tables, the cart     *)
(* kept in the session cookie and the outcome of the last request.  One    *)
(* action models one request handler, from its first line to its commit    *)
(* or rollback.  Form fields are strings, modelled as sequences of one-    *)
(* character strings, so int(), str(), strptime(), strip() and upper()     *)
(* are computed and not assumed.                                           *)
EXTENDS Integers, Sequences, FiniteSets, TLC

(* ------------------------------ bounds ------------------------------ *)
\* largest id of a game row the model lets the store insert
MaxJogos == 2
\* largest id of a customer row
MaxClientes == 1
\* largest id of a rental row
MaxLocacoes == 2
\* largest id of an order row
MaxPedidos == 1
\* largest quantity the model lets one cart entry grow to; also the
\* largest number of copies a form asks for
MaxQtd == 2
\* largest student id the registration model allocates
MaxAlunos == 3
\* largest number of requests in flight at the same time
MaxPendentes == 2
\* largest id of an order row where checkouts run side by side
MaxPedidosJuntos == 2
\* largest number the model lets a matriculation carry
MaxNumero == 3

VARIABLES
    jogos,        \* table jogos:        id -> [copias_total]
    clientes,     \* table clientes:     id -> [cpf]
    locacoes,     \* table locacoes:     id -> [cliente_id, jogo_id, data_devolucao_real, status]
    pedidos,      \* table pedidos:      id -> [cliente_id, data, status]
    itens_pedido, \* table itens_pedido: id -> [pedido_id, jogo_id, quantidade]
    session,      \* session["cart"]: key string -> quantity
    alunos,       \* table alunos, in id order: <<[id, nome, email, curso, matricula]>>
    alunos_seq,   \* the AUTO_INCREMENT counter of table alunos (last id given)
    resposta,     \* outcome of the last request: [rota, msg]
    pendentes     \* requests in flight, in the order they arrived: each has
                  \* read the database and not yet committed

loja_db == <<jogos, clientes, locacoes, pedidos, itens_pedido>>
faculdade_db == <<alunos, alunos_seq>>
vars == <<jogos, clientes, locacoes, pedidos, itens_pedido, session, alunos, alunos_seq,
          resposta, pendentes>>

(* ------------------------- strings and numbers ----------------------- *)
\* request.form.get(...) of a field the form does not carry
None == <<"None">>

Digitos == <<"0", "1", "2", "3", "4", "5", "6", "7", "8", "9">>

IsDigit(c) == c \in {"0", "1", "2", "3", "4", "5", "6", "7", "8", "9"}

DigitVal(c) == (CHOOSE i \in 1..10 : Digitos[i] = c) - 1

RECURSIVE DigitsToNat(_)
DigitsToNat(s) ==
    IF s = <<>> THEN 0
    ELSE 10 * DigitsToNat(SubSeq(s, 1, Len(s) - 1)) + DigitVal(s[Len(s)])

AllDigits(s) == Len(s) > 0 /\ \A i \in 1..Len(s) : IsDigit(s[i])

\* Python int(x) of a form value: [tipo, val]; tipo is "ok", "ValueError"
\* (not a number) or "TypeError" (None)
py_int(s) ==
    IF s = None THEN [tipo |-> "TypeError", val |-> 0]
    ELSE LET sinal == Len(s) > 0 /\ s[1] \in {"-", "+"}
             corpo == IF sinal THEN Tail(s) ELSE s
         IN IF ~AllDigits(corpo) THEN [tipo |-> "ValueError", val |-> 0]
            ELSE [tipo |-> "ok",
                  val |-> IF sinal /\ s[1] = "-" THEN 0 - DigitsToNat(corpo)
                          ELSE DigitsToNat(corpo)]

RECURSIVE NatToDigits(_)
NatToDigits(n) ==
    IF n < 10 THEN <<Digitos[n + 1]>>
    ELSE NatToDigits(n \div 10) \o <<Digitos[(n % 10) + 1]>>

\* Python str(n) of an integer
py_str(n) == IF n < 0 THEN <<"-">> \o NatToDigits(0 - n) ELSE NatToDigits(n)

\* a non-empty field: Python truthiness of a form value
Truthy(s) == s # None /\ s # <<>>

(* ------------------------------- dates ------------------------------- *)
\* a column holding NULL
NULL == <<>>

\* date.today(); the day is fixed for the whole run
Hoje == <<2026, 11, 2>>

DiasNoMes(y, m) ==
    IF m \in {4, 6, 9, 11} THEN 30
    ELSE IF m = 2
         THEN (IF (y % 4 = 0 /\ y % 100 # 0) \/ y % 400 = 0 THEN 29 ELSE 28)
         ELSE 31

\* datetime.strptime(s, "%Y-%m-%d").date(): [ok, data]
strptime(s) ==
    LET falha == [ok |-> FALSE, data |-> NULL]
    IN IF s = None \/ Len(s) < 8 \/ Len(s) > 10 THEN falha
       ELSE IF ~AllDigits(SubSeq(s, 1, 4)) \/ s[5] # "-" THEN falha
       ELSE LET p == IF s[7] = "-" THEN 7 ELSE 8
                mm == SubSeq(s, 6, p - 1)
                dd == SubSeq(s, p + 1, Len(s))
            IN IF s[p] # "-" \/ ~AllDigits(mm) \/ ~AllDigits(dd) \/ Len(dd) > 2
               THEN falha
               ELSE LET y == DigitsToNat(SubSeq(s, 1, 4))
                        m == DigitsToNat(mm)
                        d == DigitsToNat(dd)
                    IN IF y < 1 \/ m < 1 \/ m > 12 \/ d < 1 \/ d > DiasNoMes(y, m)
                       THEN falha
                       ELSE [ok |-> TRUE, data |-> <<y, m, d>>]

(* ------------------------------ tables ------------------------------- *)
EmptyTable == [i \in {} |-> 0]

MaxOf(S) == CHOOSE x \in S : \A y \in S : y <= x

\* the id the database gives the next inserted row (sqlite rowid: max + 1)
NextId(tbl) == IF DOMAIN tbl = {} THEN 1 ELSE MaxOf(DOMAIN tbl) + 1

Insert(tbl, row) == [i \in DOMAIN tbl \cup {NextId(tbl)} |->
                        IF i \in DOMAIN tbl THEN tbl[i] ELSE row]

Delete(tbl, id) == [i \in DOMAIN tbl \ {id} |-> tbl[i]]

R(rota, msg) == [rota |-> rota, msg |-> msg]

\* a request that ends without a commit: a validation error, a rollback
\* or an exception nobody catches; nothing of it is persisted
SemEfeito(rota, msg) ==
    /\ resposta' = R(rota, msg)
    /\ UNCHANGED <<loja_db, session, faculdade_db, pendentes>>

\* the requests in flight without the i-th, which has ended
SemPendente(i) == SubSeq(pendentes, 1, i - 1) \o SubSeq(pendentes, i + 1, Len(pendentes))

(* ------------------------------ Jogo --------------------------------- *)
\* Jogo.locacoes: the rental rows whose jogo_id is this game
LocacoesDoJogo(locs, j) == {l \in DOMAIN locs : locs[l].jogo_id = j}

\* copias_disponiveis without the test of the status: every rental row of
\* the game counts as out
copias_disponiveis_todas(js, locs, j) ==
    js[j].copias_total - Cardinality(LocacoesDoJogo(locs, j))

\* copias_disponiveis with the rentals added instead of subtracted
copias_disponiveis_soma(js, locs, j) ==
    LET alugados == Cardinality({l \in LocacoesDoJogo(locs, j) : locs[l].status = "ALUGADO"})
    IN js[j].copias_total + alugados

copias_disponiveis(js, locs, j) ==
    LET alugados == Cardinality({l \in LocacoesDoJogo(locs, j) : locs[l].status = "ALUGADO"})
    IN js[j].copias_total - alugados


(* --------------------------- form inputs ----------------------------- *)
\* a key the JSON body does not carry
Missing == <<"Missing">>

CopiasStrs == {None, <<"x">>} \cup {py_str(n) : n \in (0 - 1)..MaxQtd}

\* ids as the routes' <int:...> converters deliver them
JogoIds == 1..(MaxJogos + 1)
LocacaoIds == 1..(MaxLocacoes + 1)

\* ids as a form delivers them: text
IdStrs(max) == {<<>>, <<"x">>} \cup {py_str(n) : n \in 1..(max + 1)}

CpfStrs == {<<>>} \cup {py_str(n) : n \in 1..MaxClientes}

(* ----------------------------- games --------------------------------- *)
\* POST /jogos/novo
cadastrar_jogo(titulo, ano_lancamento, copias_total, commit_falha) ==
    IF ~(Truthy(titulo) /\ Truthy(ano_lancamento) /\ Truthy(copias_total))
    THEN SemEfeito("cadastrar_jogo", "Preencha todos os campos.")
    ELSE LET ano_int == py_int(ano_lancamento)
             copias_int == py_int(copias_total)
         IN IF ano_int.tipo # "ok" \/ copias_int.tipo # "ok" \/ copias_int.val <= 0
            THEN SemEfeito("cadastrar_jogo", "Ano de lancamento e copias devem ser numeros validos.")
            ELSE IF commit_falha
            THEN SemEfeito("cadastrar_jogo", "Erro ao cadastrar jogo")
            ELSE /\ NextId(jogos) <= MaxJogos
                 /\ jogos' = Insert(jogos, [copias_total |-> copias_int.val])
                 /\ resposta' = R("cadastrar_jogo", "Jogo cadastrado com sucesso!")
                 /\ UNCHANGED <<clientes, locacoes, pedidos, itens_pedido, session, faculdade_db, pendentes>>

\* POST /jogos/<jogo_id>/editar
editar_jogo(jogo_id, ano_lancamento, copias_total, commit_falha) ==
    IF jogo_id \notin DOMAIN jogos
    THEN SemEfeito("editar_jogo", "Jogo nao encontrado.")
    ELSE LET ano_int == py_int(ano_lancamento)
             copias_int == py_int(copias_total)
         IN IF ano_int.tipo = "TypeError"
            THEN SemEfeito("editar_jogo", "500")
            ELSE IF ano_int.tipo = "ValueError"
            THEN SemEfeito("editar_jogo", "Ano de lancamento e copias devem ser numeros validos.")
            ELSE IF copias_int.tipo = "TypeError"
            THEN SemEfeito("editar_jogo", "500")
            ELSE IF copias_int.tipo = "ValueError"
            THEN SemEfeito("editar_jogo", "Ano de lancamento e copias devem ser numeros validos.")
            ELSE IF commit_falha
            THEN SemEfeito("editar_jogo", "Erro ao atualizar jogo")
            ELSE /\ jogos' = [jogos EXCEPT ![jogo_id].copias_total = copias_int.val]
                 /\ resposta' = R("editar_jogo", "Jogo atualizado com sucesso!")
                 /\ UNCHANGED <<clientes, locacoes, pedidos, itens_pedido, session, faculdade_db, pendentes>>

\* db.delete(jogo) sets jogo_id of the game's rentals and order lines to
\* NULL; both columns are NOT NULL, so the flush raises
JogoReferenciado(jogo_id) ==
    \/ LocacoesDoJogo(locacoes, jogo_id) # {}
    \/ \E i \in DOMAIN itens_pedido : itens_pedido[i].jogo_id = jogo_id

\* POST /jogos/<jogo_id>/deletar
deletar_jogo(jogo_id, commit_falha) ==
    IF jogo_id \notin DOMAIN jogos
    THEN SemEfeito("deletar_jogo", "Jogo nao encontrado.")
    ELSE IF JogoReferenciado(jogo_id) \/ commit_falha
    THEN SemEfeito("deletar_jogo", "Erro ao remover jogo")
    ELSE /\ jogos' = Delete(jogos, jogo_id)
         /\ resposta' = R("deletar_jogo", "Jogo removido com sucesso!")
         /\ UNCHANGED <<clientes, locacoes, pedidos, itens_pedido, session, faculdade_db, pendentes>>

\* POST /api/jogos
api_criar_jogo(titulo, ano_lancamento, copias_total, commit_falha) ==
    IF titulo = Missing \/ ano_lancamento = Missing \/ copias_total = Missing
    THEN SemEfeito("api_criar_jogo", "400 Campos obrigatorios")
    ELSE LET ano == py_int(ano_lancamento)
             copias == py_int(copias_total)
         IN IF ano.tipo # "ok" \/ copias.tipo # "ok" \/ copias.val <= 0
            THEN SemEfeito("api_criar_jogo", "400 ano_lancamento e copias_total devem ser inteiros validos")
            ELSE IF commit_falha
            THEN SemEfeito("api_criar_jogo", "500")
            ELSE /\ NextId(jogos) <= MaxJogos
                 /\ jogos' = Insert(jogos, [copias_total |-> copias.val])
                 /\ resposta' = R("api_criar_jogo", "201")
                 /\ UNCHANGED <<clientes, locacoes, pedidos, itens_pedido, session, faculdade_db, pendentes>>

\* PUT /api/jogos/<jogo_id>
api_atualizar_jogo(jogo_id, ano_lancamento, copias_total, commit_falha) ==
    IF jogo_id \notin DOMAIN jogos
    THEN SemEfeito("api_atualizar_jogo", "404 Jogo nao encontrado")
    ELSE IF ano_lancamento # Missing /\ py_int(ano_lancamento).tipo # "ok"
    THEN SemEfeito("api_atualizar_jogo", "400 ano_lancamento deve ser inteiro")
    ELSE IF copias_total # Missing
            /\ (py_int(copias_total).tipo # "ok" \/ py_int(copias_total).val <= 0)
    THEN SemEfeito("api_atualizar_jogo", "400 copias_total deve ser inteiro positivo")
    ELSE IF commit_falha
    THEN SemEfeito("api_atualizar_jogo", "500")
    ELSE /\ jogos' = IF copias_total = Missing THEN jogos
                     ELSE [jogos EXCEPT ![jogo_id].copias_total = py_int(copias_total).val]
         /\ resposta' = R("api_atualizar_jogo", "200")
         /\ UNCHANGED <<clientes, locacoes, pedidos, itens_pedido, session, faculdade_db, pendentes>>

(* ---------------------------- customers ------------------------------ *)
\* POST /clientes/novo; the commit fails on a cpf another customer has
cadastrar_cliente(nome, cpf, commit_falha) ==
    IF ~(Truthy(nome) /\ Truthy(cpf))
    THEN SemEfeito("cadastrar_cliente", "Preencha todos os campos.")
    ELSE IF commit_falha \/ \E c \in DOMAIN clientes : clientes[c].cpf = cpf
    THEN SemEfeito("cadastrar_cliente", "Erro ao cadastrar cliente")
    ELSE /\ NextId(clientes) <= MaxClientes
         /\ clientes' = Insert(clientes, [cpf |-> cpf])
         /\ resposta' = R("cadastrar_cliente", "Cliente cadastrado com sucesso!")
         /\ UNCHANGED <<jogos, locacoes, pedidos, itens_pedido, session, faculdade_db, pendentes>>

(* ----------------------------- rentals ------------------------------- *)
\* a status field the form does not carry
SemStatus == "(ausente)"

StatusStrs == {SemStatus, "ALUGADO", "DEVOLVIDO", "PERDIDO"}

\* request.form.get("status", "ALUGADO")
FormGetStatus(status) == IF status = SemStatus THEN "ALUGADO" ELSE status

DataValida == <<"2", "0", "2", "6", "-", "1", "0", "-", "3", "0">>
DataInvalida == <<"2", "0", "2", "6", "-", "0", "2", "-", "3", "0">>

\* the stock test with < 0 in place of <= 0
SemCopias_estrito(ja_devolveu, jogo_id) ==
    ~ja_devolveu /\ copias_disponiveis(jogos, locacoes, jogo_id) < 0

\* the stock test of cadastrar_locacao: an open rental needs a free copy
SemCopias(ja_devolveu, jogo_id) ==
    ~ja_devolveu /\ copias_disponiveis(jogos, locacoes, jogo_id) <= 0

\* POST /locacoes/novo.  data_retirada and data_devolucao_prevista are
\* validated as the handler does; the two columns are not part of the state.
cadastrar_locacao(cliente_id, jogo_id, data_retirada_str, data_prevista_str, status_form, commit_falha) ==
    LET status == FormGetStatus(status_form)
        ja_devolveu == (status = "DEVOLVIDO")
        cliente_id_int == py_int(cliente_id)
        jogo_id_int == py_int(jogo_id)
    IN IF ~(Truthy(cliente_id) /\ Truthy(jogo_id) /\ Truthy(data_retirada_str))
       THEN SemEfeito("cadastrar_locacao", "Preencha cliente, jogo e data de retirada.")
       ELSE IF cliente_id_int.tipo # "ok" \/ jogo_id_int.tipo # "ok"
       THEN SemEfeito("cadastrar_locacao", "Cliente ou jogo invalido.")
       ELSE IF cliente_id_int.val \notin DOMAIN clientes \/ jogo_id_int.val \notin DOMAIN jogos
       THEN SemEfeito("cadastrar_locacao", "Cliente ou jogo nao encontrado.")
       ELSE IF ~strptime(data_retirada_str).ok
       THEN SemEfeito("cadastrar_locacao", "Data de retirada invalida.")
       ELSE IF Truthy(data_prevista_str) /\ ~strptime(data_prevista_str).ok
       THEN SemEfeito("cadastrar_locacao", "Data de devolucao prevista invalida.")
       ELSE IF SemCopias(ja_devolveu, jogo_id_int.val)
       THEN SemEfeito("cadastrar_locacao", "Nao ha copias disponiveis para alugar.")
       ELSE IF commit_falha
       THEN SemEfeito("cadastrar_locacao", "Erro ao registrar locacao")
       ELSE /\ NextId(locacoes) <= MaxLocacoes
            /\ locacoes' = Insert(locacoes,
                              [cliente_id |-> cliente_id_int.val,
                               jogo_id |-> jogo_id_int.val,
                               data_devolucao_real |-> IF ja_devolveu THEN Hoje ELSE NULL,
                               status |-> status])
            /\ resposta' = R("cadastrar_locacao", "Locacao registrada com sucesso!")
            /\ UNCHANGED <<jogos, clientes, pedidos, itens_pedido, session, faculdade_db, pendentes>>

\* editar_locacao without the else branch that clears the date
Editada_sem_limpar(loc, status, data_devolucao_real_str) ==
    [loc EXCEPT
        !.status = status,
        !.data_devolucao_real =
            IF status = "DEVOLVIDO"
            THEN (IF Truthy(data_devolucao_real_str)
                  THEN strptime(data_devolucao_real_str).data
                  ELSE Hoje)
            ELSE @]

\* the rental row as editar_locacao leaves it for an accepted form
Editada(loc, status, data_devolucao_real_str) ==
    [loc EXCEPT
        !.status = status,
        !.data_devolucao_real =
            IF status = "DEVOLVIDO"
            THEN (IF Truthy(data_devolucao_real_str)
                  THEN strptime(data_devolucao_real_str).data
                  ELSE Hoje)
            ELSE NULL]

\* POST /locacoes/<locacao_id>/editar
editar_locacao(locacao_id, status_form, data_devolucao_real_str, commit_falha) ==
    LET status == FormGetStatus(status_form)
    IN IF locacao_id \notin DOMAIN locacoes
       THEN SemEfeito("editar_locacao", "Locacao nao encontrada.")
       ELSE IF status = "DEVOLVIDO" /\ Truthy(data_devolucao_real_str)
               /\ ~strptime(data_devolucao_real_str).ok
       THEN SemEfeito("editar_locacao", "Data de devolucao real invalida.")
       ELSE IF commit_falha
       THEN SemEfeito("editar_locacao", "Erro ao atualizar locacao")
       ELSE /\ locacoes' = [locacoes EXCEPT
                   ![locacao_id] = Editada(@, status, data_devolucao_real_str)]
            /\ resposta' = R("editar_locacao", "Locacao atualizada com sucesso!")
            /\ UNCHANGED <<jogos, clientes, pedidos, itens_pedido, session, faculdade_db, pendentes>>

\* deletar_locacao that also puts a copy back into copias_total
deletar_locacao_devolve(locacao_id, commit_falha) ==
    IF locacao_id \notin DOMAIN locacoes
    THEN SemEfeito("deletar_locacao", "Locacao nao encontrada.")
    ELSE IF commit_falha
    THEN SemEfeito("deletar_locacao", "Erro ao remover locacao")
    ELSE /\ locacoes' = Delete(locacoes, locacao_id)
         /\ jogos' = [jogos EXCEPT ![locacoes[locacao_id].jogo_id].copias_total = @ + 1]
         /\ resposta' = R("deletar_locacao", "Locacao removida com sucesso!")
         /\ UNCHANGED <<clientes, pedidos, itens_pedido, session, faculdade_db, pendentes>>

\* POST /locacoes/<locacao_id>/deletar
deletar_locacao(locacao_id, commit_falha) ==
    IF locacao_id \notin DOMAIN locacoes
    THEN SemEfeito("deletar_locacao", "Locacao nao encontrada.")
    ELSE IF commit_falha
    THEN SemEfeito("deletar_locacao", "Erro ao remover locacao")
    ELSE /\ locacoes' = Delete(locacoes, locacao_id)
         /\ resposta' = R("deletar_locacao", "Locacao removida com sucesso!")
         /\ UNCHANGED <<jogos, clientes, pedidos, itens_pedido, session, faculdade_db, pendentes>>

\* devolver_locacao without the test for a rental already returned
devolver_locacao_sempre(locacao_id, commit_falha) ==
    IF locacao_id \notin DOMAIN locacoes
    THEN SemEfeito("devolver_locacao", "Locacao nao encontrada.")
    ELSE IF commit_falha
    THEN SemEfeito("devolver_locacao", "Erro ao registrar devolucao")
    ELSE /\ locacoes' = [locacoes EXCEPT
                ![locacao_id].status = "DEVOLVIDO",
                ![locacao_id].data_devolucao_real = Hoje]
         /\ resposta' = R("devolver_locacao", "Devolucao registrada com sucesso!")
         /\ UNCHANGED <<jogos, clientes, pedidos, itens_pedido, session, faculdade_db, pendentes>>

\* POST /locacoes/<locacao_id>/devolver
devolver_locacao(locacao_id, commit_falha) ==
    IF locacao_id \notin DOMAIN locacoes
    THEN SemEfeito("devolver_locacao", "Locacao nao encontrada.")
    ELSE IF locacoes[locacao_id].status = "DEVOLVIDO"
    THEN SemEfeito("devolver_locacao", "Essa locacao ja esta marcada como devolvida.")
    ELSE IF commit_falha
    THEN SemEfeito("devolver_locacao", "Erro ao registrar devolucao")
    ELSE /\ locacoes' = [locacoes EXCEPT
                ![locacao_id].status = "DEVOLVIDO",
                ![locacao_id].data_devolucao_real = Hoje]
         /\ resposta' = R("devolver_locacao", "Devolucao registrada com sucesso!")
         /\ UNCHANGED <<jogos, clientes, pedidos, itens_pedido, session, faculdade_db, pendentes>>

(* ------------------------------- cart -------------------------------- *)
\* {int(k): int(v) for k, v in session.get("cart", {}).items()}
get_cart(sess) ==
    [i \in {py_int(k).val : k \in DOMAIN sess} |->
        sess[CHOOSE k \in DOMAIN sess : py_int(k).val = i]]

\* session["cart"] = {str(k): int(v) for k, v in cart.items()}
save_cart(cart) ==
    [k \in {py_str(i) : i \in DOMAIN cart} |->
        cart[CHOOSE i \in DOMAIN cart : py_str(i) = k]]

\* POST /carrinho/adicionar/<jogo_id>; quantidade defaults to the integer 1
QuantidadeStrs == {None, <<"x">>} \cup {py_str(n) : n \in (0 - 1)..MaxQtd}

\* adicionar_ao_carrinho without the reset of a quantity <= 0 to 1
adicionar_ao_carrinho_sem_minimo(jogo_id, quantidade) ==
    LET cart == get_cart(session)
        lido == IF quantidade = None THEN [tipo |-> "ok", val |-> 1] ELSE py_int(quantidade)
        qtd == lido.val
        atual == IF jogo_id \in DOMAIN cart THEN cart[jogo_id] ELSE 0
    IN IF lido.tipo # "ok"
       THEN SemEfeito("adicionar_ao_carrinho", "500")
       ELSE /\ atual + qtd <= MaxQtd
            /\ session' = save_cart([i \in DOMAIN cart \cup {jogo_id} |->
                                        IF i = jogo_id THEN atual + qtd ELSE cart[i]])
            /\ resposta' = R("adicionar_ao_carrinho", "Jogo adicionado ao carrinho.")
            /\ UNCHANGED <<loja_db, faculdade_db, pendentes>>

adicionar_ao_carrinho(jogo_id, quantidade) ==
    LET cart == get_cart(session)
        lido == IF quantidade = None THEN [tipo |-> "ok", val |-> 1] ELSE py_int(quantidade)
        qtd == IF lido.val <= 0 THEN 1 ELSE lido.val
        atual == IF jogo_id \in DOMAIN cart THEN cart[jogo_id] ELSE 0
    IN IF lido.tipo # "ok"
       THEN SemEfeito("adicionar_ao_carrinho", "500")
       ELSE /\ atual + qtd <= MaxQtd
            /\ session' = save_cart([i \in DOMAIN cart \cup {jogo_id} |->
                                        IF i = jogo_id THEN atual + qtd ELSE cart[i]])
            /\ resposta' = R("adicionar_ao_carrinho", "Jogo adicionado ao carrinho.")
            /\ UNCHANGED <<loja_db, faculdade_db, pendentes>>

\* POST /carrinho/remover/<jogo_id>
remover_do_carrinho(jogo_id) ==
    LET cart == get_cart(session)
    IN IF jogo_id \in DOMAIN cart
       THEN /\ session' = save_cart([i \in DOMAIN cart \ {jogo_id} |-> cart[i]])
            /\ resposta' = R("remover_do_carrinho", "Item removido do carrinho.")
            /\ UNCHANGED <<loja_db, faculdade_db, pendentes>>
       ELSE SemEfeito("remover_do_carrinho", "Item nao encontrado no carrinho.")

(* ----------------------------- checkout ------------------------------ *)
\* cart.items(): the session is stored as JSON with sorted keys, so the
\* entries come in ascending order of the key
RECURSIVE Ordenado(_)
Ordenado(S) ==
    IF S = {} THEN <<>>
    ELSE LET m == CHOOSE x \in S : \A y \in S : x <= y
         IN <<m>> \o Ordenado(S \ {m})

\* the stock test stopping after the first line of an existing game
RECURSIVE EstoqueSuficiente_primeira(_, _)
EstoqueSuficiente_primeira(keys, cart) ==
    IF keys = <<>> THEN TRUE
    ELSE LET jogo_id == Head(keys)
         IN IF jogo_id \notin DOMAIN jogos
            THEN EstoqueSuficiente_primeira(Tail(keys), cart)
            ELSE ~(copias_disponiveis(jogos, locacoes, jogo_id) < cart[jogo_id])

\* step 1 of finalizar_compra: TRUE when no cart line of an existing game
\* asks for more than the game's available copies
RECURSIVE EstoqueSuficiente(_, _)
EstoqueSuficiente(keys, cart) ==
    IF keys = <<>> THEN TRUE
    ELSE LET jogo_id == Head(keys)
         IN IF jogo_id \notin DOMAIN jogos
            THEN EstoqueSuficiente(Tail(keys), cart)
            ELSE IF copias_disponiveis(jogos, locacoes, jogo_id) < cart[jogo_id]
            THEN FALSE
            ELSE EstoqueSuficiente(Tail(keys), cart)

\* one copy taken from the stock per cart line, whatever the quantity
Abate_um(copias_total, quantidade) ==
    IF copias_total - 1 < 0 THEN 0 ELSE copias_total - 1

\* the stock a game keeps after quantidade copies are bought
Abate(copias_total, quantidade) ==
    IF copias_total - quantidade < 0 THEN 0 ELSE copias_total - quantidade

\* step 3 of finalizar_compra: one order line per cart entry of an existing
\* game, and the game's stock lowered; [jogos, itens]
RECURSIVE CriaItens(_, _, _, _, _)
CriaItens(keys, cart, pedido_id, js, itens) ==
    IF keys = <<>> THEN [jogos |-> js, itens |-> itens]
    ELSE LET jogo_id == Head(keys)
         IN IF jogo_id \notin DOMAIN js
            THEN CriaItens(Tail(keys), cart, pedido_id, js, itens)
            ELSE CriaItens(Tail(keys), cart, pedido_id,
                    [js EXCEPT ![jogo_id].copias_total = Abate(@, cart[jogo_id])],
                    Insert(itens, [pedido_id |-> pedido_id,
                                   jogo_id |-> jogo_id,
                                   quantidade |-> cart[jogo_id]]))

\* the cart emptied before the commit: it stays empty when the commit raises
CompraDesfeita_sem_carrinho ==
    /\ resposta' = R("finalizar_compra", "Erro ao finalizar compra")
    /\ session' = EmptyTable
    /\ UNCHANGED <<loja_db, faculdade_db, pendentes>>

\* the except branch of finalizar_compra: db.rollback() drops the order,
\* its lines and the stock changes; the cart is not touched
CompraDesfeita == SemEfeito("finalizar_compra", "Erro ao finalizar compra")

\* POST /carrinho/finalizar
finalizar_compra(cliente_id, commit_falha) ==
    LET cart == get_cart(session)
        keys == Ordenado(DOMAIN cart)
        cliente_id_int == py_int(cliente_id)
    IN IF DOMAIN cart = {}
       THEN SemEfeito("finalizar_compra", "Carrinho vazio.")
       ELSE IF ~Truthy(cliente_id)
       THEN SemEfeito("finalizar_compra", "Selecione um cliente para finalizar a compra.")
       ELSE IF cliente_id_int.tipo # "ok"
       THEN SemEfeito("finalizar_compra", "Cliente invalido.")
       ELSE IF cliente_id_int.val \notin DOMAIN clientes
       THEN SemEfeito("finalizar_compra", "Cliente nao encontrado.")
       ELSE IF ~EstoqueSuficiente(keys, cart)
       THEN SemEfeito("finalizar_compra", "Nao ha estoque suficiente.")
       ELSE IF commit_falha
       THEN CompraDesfeita
       ELSE LET pedido_id == NextId(pedidos)
                feito == CriaItens(keys, cart, pedido_id, jogos, itens_pedido)
            IN /\ pedido_id <= MaxPedidos
               /\ pedidos' = Insert(pedidos, [cliente_id |-> cliente_id_int.val,
                                              data |-> Hoje,
                                              status |-> "CONCLUIDO"])
               /\ itens_pedido' = feito.itens
               /\ jogos' = feito.jogos
               /\ session' = save_cart(EmptyTable)
               /\ resposta' = R("finalizar_compra", "Compra finalizada com sucesso!")
               /\ UNCHANGED <<clientes, locacoes, faculdade_db, pendentes>>

(* ----------------------- checkouts side by side ---------------------- *)
\* Each request has its own database session and its own Jogo objects.
\* A request that has passed the stock test holds the games as it loaded
\* them; `jogo.copias_total -= quantidade` is computed on that object and
\* the UPDATE of db.commit() writes the result, after whatever the other
\* requests committed in between.

\* finalizar_compra from its first line to the end of the stock test
finalizar_compra_le(cliente_id) ==
    LET cart == get_cart(session)
        keys == Ordenado(DOMAIN cart)
        cliente_id_int == py_int(cliente_id)
    IN IF DOMAIN cart = {}
       THEN SemEfeito("finalizar_compra", "Carrinho vazio.")
       ELSE IF ~Truthy(cliente_id)
       THEN SemEfeito("finalizar_compra", "Selecione um cliente para finalizar a compra.")
       ELSE IF cliente_id_int.tipo # "ok"
       THEN SemEfeito("finalizar_compra", "Cliente invalido.")
       ELSE IF cliente_id_int.val \notin DOMAIN clientes
       THEN SemEfeito("finalizar_compra", "Cliente nao encontrado.")
       ELSE IF ~EstoqueSuficiente(keys, cart)
       THEN SemEfeito("finalizar_compra", "Nao ha estoque suficiente.")
       ELSE /\ Len(pendentes) < MaxPendentes
            /\ pendentes' = Append(pendentes,
                                [rota |-> "finalizar_compra",
                                 cliente_id |-> cliente_id_int.val,
                                 cart |-> cart,
                                 jogos_map |-> [j \in DOMAIN cart \cap DOMAIN jogos |-> jogos[j]]])
            /\ UNCHANGED <<loja_db, session, faculdade_db, resposta>>

\* finalizar_compra from the creation of the order to its end, for the
\* i-th request in flight.  An UPDATE of a game row that is gone raises.
finalizar_compra_grava(i, commit_falha) ==
    LET p == pendentes[i]
        keys == Ordenado(DOMAIN p.cart)
        pedido_id == NextId(pedidos)
        feito == CriaItens(keys, p.cart, pedido_id, p.jogos_map, itens_pedido)
    IN /\ p.rota = "finalizar_compra"
       /\ pendentes' = SemPendente(i)
       /\ UNCHANGED <<clientes, locacoes, faculdade_db>>
       /\ IF commit_falha \/ ~(DOMAIN p.jogos_map \subseteq DOMAIN jogos)
          THEN /\ resposta' = R("finalizar_compra", "Erro ao finalizar compra")
               /\ UNCHANGED <<jogos, pedidos, itens_pedido, session>>
          ELSE /\ pedido_id <= MaxPedidosJuntos
               /\ pedidos' = Insert(pedidos, [cliente_id |-> p.cliente_id,
                                              data |-> Hoje,
                                              status |-> "CONCLUIDO"])
               /\ itens_pedido' = feito.itens
               /\ jogos' = [j \in DOMAIN jogos |->
                               IF j \in DOMAIN feito.jogos THEN feito.jogos[j] ELSE jogos[j]]
               /\ session' = save_cart(EmptyTable)
               /\ resposta' = R("finalizar_compra", "Compra finalizada com sucesso!")

(* ------------------------- the store's runs -------------------------- *)
Init ==
    /\ jogos = EmptyTable
    /\ clientes = EmptyTable
    /\ locacoes = EmptyTable
    /\ pedidos = EmptyTable
    /\ itens_pedido = EmptyTable
    /\ session = EmptyTable
    /\ alunos = <<>>
    /\ alunos_seq = 0
    /\ resposta = R("", "")
    /\ pendentes = <<>>

\* The requests the runs send.  A form is a tuple of field values; beside
\* every well-formed form there is, per field, one form per way that field
\* can be absent or ill-formed (the other fields well-formed), so every
\* branch of a handler is taken without sending each product of bad fields.
AnoOk == <<"2", "0", "2", "0">>
TextoOk == <<"T">>
DataOk == DataValida
Um == py_str(1)

\* <<ano_lancamento, copias_total>>
AnoCopias(anos_ruins, copias) ==
    {<<a, Um>> : a \in anos_ruins} \cup {<<AnoOk, c>> : c \in copias}

\* <<titulo, ano_lancamento, copias_total>>
FormsJogo ==
    ({None, <<>>} \X {AnoOk} \X {Um})
      \cup {<<TextoOk, ac[1], ac[2]>> : ac \in AnoCopias({<<>>, <<"x">>}, CopiasStrs)}

CadastrarJogo == \E f \in FormsJogo : cadastrar_jogo(f[1], f[2], f[3], FALSE)

EditarJogo ==
    \E j \in JogoIds, ac \in AnoCopias({None, <<"x">>}, CopiasStrs) :
        editar_jogo(j, ac[1], ac[2], FALSE)

DeletarJogo == \E j \in JogoIds : deletar_jogo(j, FALSE)

JsonJogo ==
    {<<Missing, AnoOk, Um>>}
      \cup {<<TextoOk, ac[1], ac[2]>> :
              ac \in AnoCopias({Missing, None, <<"x">>}, CopiasStrs \cup {Missing})}

ApiCriarJogo == \E d \in JsonJogo : api_criar_jogo(d[1], d[2], d[3], FALSE)

ApiAtualizarJogo ==
    \E j \in JogoIds, ac \in AnoCopias({None, <<"x">>}, CopiasStrs \cup {Missing})
                                \cup {<<Missing, Um>>} :
        api_atualizar_jogo(j, ac[1], ac[2], FALSE)

\* <<nome, cpf>>
FormsCliente == ({None, <<>>} \X {Um}) \cup ({TextoOk} \X CpfStrs)

CadastrarCliente == \E f \in FormsCliente : cadastrar_cliente(f[1], f[2], FALSE)

ClientesOk == {py_str(n) : n \in 1..MaxClientes}
JogosOk == {py_str(n) : n \in 1..MaxJogos}

\* <<cliente_id, jogo_id, data_retirada, data_devolucao_prevista, status>>
FormsLocacao ==
         (ClientesOk \X JogosOk \X {DataOk} \X {<<>>} \X StatusStrs)
    \cup ((IdStrs(MaxClientes) \ ClientesOk) \X {Um} \X {DataOk} \X {<<>>} \X {"ALUGADO"})
    \cup ({Um} \X (IdStrs(MaxJogos) \ JogosOk) \X {DataOk} \X {<<>>} \X {"ALUGADO"})
    \cup ({Um} \X {Um} \X {None, <<>>, DataInvalida} \X {<<>>} \X {"ALUGADO"})
    \cup ({Um} \X {Um} \X {DataOk} \X {DataOk, DataInvalida} \X {"ALUGADO"})

CadastrarLocacao ==
    \E f \in FormsLocacao : cadastrar_locacao(f[1], f[2], f[3], f[4], f[5], FALSE)

\* the rental form as the page sends it for a new rental: every field
\* well-formed, status ALUGADO
Alugar ==
    \E c \in ClientesOk, j \in JogosOk :
        cadastrar_locacao(c, j, DataOk, <<>>, "ALUGADO", FALSE)

\* <<status, data_devolucao_real>>
FormsEdicao ==
    (StatusStrs \X {None}) \cup ({"DEVOLVIDO"} \X {<<>>, DataOk, DataInvalida})

EditarLocacao ==
    \E l \in LocacaoIds, f \in FormsEdicao : editar_locacao(l, f[1], f[2], FALSE)

DeletarLocacao == \E l \in LocacaoIds : deletar_locacao(l, FALSE)

DevolverLocacao == \E l \in LocacaoIds : devolver_locacao(l, FALSE)

AdicionarAoCarrinho ==
    \E j \in 1..MaxJogos, q \in QuantidadeStrs : adicionar_ao_carrinho(j, q)

RemoverDoCarrinho == \E j \in 1..MaxJogos : remover_do_carrinho(j)

\* <<cliente_id, commit_falha>>: the commit of a checkout can fail (the
\* database is gone, a lock times out); the handler then rolls back
FormsCompra ==
    ((IdStrs(MaxClientes) \cup {None}) \X {FALSE}) \cup (ClientesOk \X {TRUE})

FinalizarCompra == \E f \in FormsCompra : finalizar_compra(f[1], f[2])

\* every route of the store
Next ==
    \/ CadastrarJogo
    \/ EditarJogo
    \/ DeletarJogo
    \/ ApiCriarJogo
    \/ ApiAtualizarJogo
    \/ CadastrarCliente
    \/ CadastrarLocacao
    \/ EditarLocacao
    \/ DeletarLocacao
    \/ DevolverLocacao
    \/ AdicionarAoCarrinho
    \/ RemoverDoCarrinho
    \/ FinalizarCompra

Spec == Init /\ [][Next]_vars

\* The rental desk: the routes that write what copias_disponiveis and the
\* rental handlers read (copias_total and the rental rows).  A checkout
\* writes nothing of it but copias_total, and only values editar_jogo can
\* set as well, so these runs reach every <<jogos, clientes, locacoes>>
\* the whole store reaches.
NextLocacoes ==
    \/ CadastrarJogo
    \/ EditarJogo
    \/ CadastrarCliente
    \/ CadastrarLocacao
    \/ EditarLocacao
    \/ DeletarLocacao
    \/ DevolverLocacao

SpecLocacoes == Init /\ [][NextLocacoes]_vars

\* The shop: games, customers, open rentals, the cart and the checkout.
NextCompra ==
    \/ CadastrarJogo
    \/ CadastrarCliente
    \/ Alugar
    \/ AdicionarAoCarrinho
    \/ RemoverDoCarrinho
    \/ FinalizarCompra

SpecCompra == Init /\ [][NextCompra]_vars

\* The stock room: the number of copies of a game is edited (to any
\* value the edit form accepts), copies are rented, the cart is filled and
\* checked out.
AjustarCopias ==
    \E j \in 1..MaxJogos, c \in {py_str(n) : n \in (0 - 1)..MaxQtd} :
        editar_jogo(j, AnoOk, c, FALSE)

\* the game form and the customer form filled in as the pages ask
NovoJogo ==
    \E c \in {py_str(n) : n \in 1..MaxQtd} : cadastrar_jogo(TextoOk, AnoOk, c, FALSE)

NovoCliente == \E c \in ClientesOk : cadastrar_cliente(TextoOk, c, FALSE)

NextEstoque ==
    \/ NovoJogo
    \/ AjustarCopias
    \/ NovoCliente
    \/ Alugar
    \/ AdicionarAoCarrinho
    \/ FinalizarCompra

SpecEstoque == Init /\ [][NextEstoque]_vars

\* The rental counter on its best behaviour: games and customers are
\* entered with well-formed forms, no game is edited, and the rental forms
\* carry one of the two statuses the pages offer.
StatusDaPagina == {"ALUGADO", "DEVOLVIDO"}

LocacaoDaPagina ==
    \E c \in ClientesOk, j \in JogosOk, st \in StatusDaPagina :
        cadastrar_locacao(c, j, DataOk, <<>>, st, FALSE)

EdicaoDaPagina ==
    \E l \in LocacaoIds, st \in StatusDaPagina : editar_locacao(l, st, None, FALSE)

NextBalcao ==
    \/ NovoJogo
    \/ NovoCliente
    \/ LocacaoDaPagina
    \/ EdicaoDaPagina
    \/ DevolverLocacao
    \/ DeletarLocacao

SpecBalcao == Init /\ [][NextBalcao]_vars

\* The shop with checkouts that overlap: the same cart is sent twice (the
\* button pressed twice, two tabs), or sent again after it was refilled.
\* Games are added to the cart with the shop page's button, one copy a
\* press, and the checkout form names a customer of the list.
PorNoCarrinho == \E j \in 1..MaxJogos : adicionar_ao_carrinho(j, Um)

FinalizarCompraLe == \E c \in ClientesOk : finalizar_compra_le(c)

FinalizarCompraGrava ==
    \E i \in 1..Len(pendentes) : finalizar_compra_grava(i, FALSE)

NextCompraJunta ==
    \/ NovoJogo
    \/ NovoCliente
    \/ PorNoCarrinho
    \/ FinalizarCompraLe
    \/ FinalizarCompraGrava

SpecCompraJunta == Init /\ [][NextCompraJunta]_vars

(* ====================== student registration ======================== *)
CURSOS_VALIDOS ==
    {<<"G", "E", "C">>, <<"G", "E", "A">>, <<"G", "E", "S">>,
     <<"G", "E", "B">>, <<"G", "E", "T">>}

Minusculas == <<"a", "b", "c", "d", "e", "f", "g", "h", "i", "j", "k", "l", "m",
                "n", "o", "p", "q", "r", "s", "t", "u", "v", "w", "x", "y", "z">>
Maiusculas == <<"A", "B", "C", "D", "E", "F", "G", "H", "I", "J", "K", "L", "M",
                "N", "O", "P", "Q", "R", "S", "T", "U", "V", "W", "X", "Y", "Z">>

\* str.upper()
upper(s) ==
    [i \in 1..Len(s) |->
        IF \E k \in 1..26 : Minusculas[k] = s[i]
        THEN Maiusculas[CHOOSE k \in 1..26 : Minusculas[k] = s[i]]
        ELSE s[i]]

\* str.strip()
RECURSIVE strip(_)
strip(s) ==
    IF s = <<>> THEN s
    ELSE IF Head(s) = " " THEN strip(Tail(s))
    ELSE IF s[Len(s)] = " " THEN strip(SubSeq(s, 1, Len(s) - 1))
    ELSE s

\* request.form.get(campo, "")
FormGet(v) == IF v = None THEN <<>> ELSE v

\* str.startswith(prefixo)
startswith(s, prefixo) ==
    Len(s) >= Len(prefixo) /\ SubSeq(s, 1, Len(prefixo)) = prefixo

\* the rows of a course, in id order
DoCurso(db, curso) == SelectSeq(db, LAMBDA a : a.curso = curso)

\* gerar_matricula numbering after the last student of any course
gerar_matricula_global(db, curso) ==
    LET proximo ==
            IF db # <<>>
            THEN LET ultimo == db[Len(db)]
                     lido == py_int(SubSeq(ultimo.matricula, Len(curso) + 1,
                                           Len(ultimo.matricula)))
                 IN (IF lido.tipo = "ok" THEN lido.val ELSE 0) + 1
            ELSE 1
    IN curso \o py_str(proximo)

gerar_matricula(db, curso) ==
    LET do_curso == DoCurso(db, curso)
        proximo ==
            IF do_curso # <<>> /\ startswith(do_curso[Len(do_curso)].matricula, curso)
            THEN LET ultimo == do_curso[Len(do_curso)]
                     lido == py_int(SubSeq(ultimo.matricula, Len(curso) + 1,
                                           Len(ultimo.matricula)))
                     numero_atual == IF lido.tipo = "ok" THEN lido.val ELSE 0
                 IN numero_atual + 1
            ELSE 1
    IN curso \o py_str(proximo)

\* table alunos with the unique constraint on email only
ViolaUnique_so_email(db, pos, email, matricula) ==
    \E i \in 1..Len(db) : i # pos /\ db[i].email = email

\* the unique constraints of table alunos, for a row written at position
\* pos (0 for a new row)
ViolaUnique(db, pos, email, matricula) ==
    \E i \in 1..Len(db) :
        i # pos /\ (db[i].email = email \/ db[i].matricula = matricula)

\* the number a matriculation of this course carries
NumeroDe(matricula, curso) ==
    py_int(SubSeq(matricula, Len(curso) + 1, Len(matricula))).val

\* the unique key the exception of a refused row names: the database tests
\* the keys in the order the table declares them, email before matricula
ChaveViolada(db, pos, email) ==
    IF \E i \in 1..Len(db) : i # pos /\ db[i].email = email
    THEN "email" ELSE "matricula"

\* POST /alunos/novo.  A rolled back INSERT takes no id.
novo_aluno(nome_form, email_form, curso_form) ==
    LET nome == strip(FormGet(nome_form))
        email == strip(FormGet(email_form))
        curso == upper(strip(FormGet(curso_form)))
    IN IF nome = <<>> \/ email = <<>> \/ curso = <<>>
       THEN SemEfeito("novo_aluno", "Preencha todos os campos.")
       ELSE IF curso \notin CURSOS_VALIDOS
       THEN SemEfeito("novo_aluno", "Curso invalido!")
       ELSE LET matricula == gerar_matricula(alunos, curso)
            IN IF ViolaUnique(alunos, 0, email, matricula)
               THEN SemEfeito("novo_aluno",
                              IF ChaveViolada(alunos, 0, email) = "email"
                              THEN "Erro ao cadastrar aluno: email"
                              ELSE "Erro ao cadastrar aluno: matricula")
               ELSE /\ alunos_seq + 1 <= MaxAlunos
                    /\ NumeroDe(matricula, curso) <= MaxNumero
                    /\ alunos_seq' = alunos_seq + 1
                    /\ alunos' = Append(alunos, [id |-> alunos_seq + 1,
                                                 nome |-> nome,
                                                 email |-> email,
                                                 curso |-> curso,
                                                 matricula |-> matricula])
                    /\ resposta' = R("novo_aluno", "Aluno cadastrado com sucesso!")
                    /\ UNCHANGED <<loja_db, session, pendentes>>

\* the position in alunos of the row with this id, 0 when there is none
PosAluno(aluno_id) ==
    IF \E i \in 1..Len(alunos) : alunos[i].id = aluno_id
    THEN CHOOSE i \in 1..Len(alunos) : alunos[i].id = aluno_id
    ELSE 0

\* the edit that keeps the matriculation when the course changes
MatriculaEditada_mantida(db, pos, curso) == db[pos].matricula

\* the edit that asks for a new matriculation whatever the course
MatriculaEditada_sempre(db, pos, curso) == gerar_matricula(db, curso)

\* the matriculation editar_aluno leaves the student with: a new one of
\* the submitted course when that is not the student's course
MatriculaEditada(db, pos, curso) ==
    IF curso # db[pos].curso THEN gerar_matricula(db, curso)
    ELSE db[pos].matricula

\* POST /alunos/<aluno_id>/editar.  The session does not autoflush, so
\* gerar_matricula reads the rows as committed: the edited student still
\* counts for the old course.
editar_aluno(aluno_id, nome_form, email_form, curso_form) ==
    LET pos == PosAluno(aluno_id)
        nome == strip(FormGet(nome_form))
        email == strip(FormGet(email_form))
        curso == upper(strip(FormGet(curso_form)))
    IN IF pos = 0
       THEN SemEfeito("editar_aluno", "Aluno nao encontrado.")
       ELSE IF nome = <<>> \/ email = <<>> \/ curso = <<>>
       THEN SemEfeito("editar_aluno", "Preencha todos os campos.")
       ELSE IF curso \notin CURSOS_VALIDOS
       THEN SemEfeito("editar_aluno", "Curso invalido!")
       ELSE LET mudou == curso # alunos[pos].curso
                matricula == MatriculaEditada(alunos, pos, curso)
            IN IF ViolaUnique(alunos, pos, email, matricula)
               THEN SemEfeito("editar_aluno",
                              IF ChaveViolada(alunos, pos, email) = "email"
                              THEN "Erro ao atualizar aluno: email"
                              ELSE "Erro ao atualizar aluno: matricula")
               ELSE /\ NumeroDe(matricula, curso) <= MaxNumero
                    /\ alunos' = [alunos EXCEPT ![pos] =
                                    [id |-> aluno_id, nome |-> nome, email |-> email,
                                     curso |-> curso, matricula |-> matricula]]
                    /\ resposta' = R("editar_aluno",
                                     IF mudou THEN "Aluno atualizado com nova matricula."
                                     ELSE "Aluno atualizado.")
                    /\ UNCHANGED <<loja_db, session, alunos_seq, pendentes>>

\* POST /alunos/<aluno_id>/deletar
deletar_aluno(aluno_id) ==
    LET pos == PosAluno(aluno_id)
    IN IF pos = 0
       THEN SemEfeito("deletar_aluno", "Aluno nao encontrado.")
       ELSE /\ alunos' = SubSeq(alunos, 1, pos - 1) \o SubSeq(alunos, pos + 1, Len(alunos))
            /\ resposta' = R("deletar_aluno", "Aluno removido com sucesso!")
            /\ UNCHANGED <<loja_db, session, alunos_seq, pendentes>>

NomeOk == <<"A", "n", "a">>
EmailStrs == {<<"e">> \o py_str(n) : n \in 1..MaxAlunos}

\* the course field as typed: padded, lower case, not a course
CursoStrs ==
    {<<" ", "g", "e", "c", " ">>, <<"G", "E", "A">>, <<"g", "e", "s">>,
     <<"G", "E", "B">>, <<"g", "e", "t", " ">>}
CursoRuimStrs == {None, <<" ">>, <<"G", "E">>, <<"G", "E", "C", "1">>}

\* <<nome, email, curso>>
FormsAluno ==
         ({NomeOk} \X EmailStrs \X CursoStrs)
    \cup ({None, <<" ">>} \X {<<"e", "1">>} \X {<<"G", "E", "A">>})
    \cup ({NomeOk} \X {None} \X {<<"G", "E", "A">>})
    \cup ({NomeOk} \X {<<"e", "1">>} \X CursoRuimStrs)

AlunoIds == 1..(MaxAlunos + 1)

NovoAluno == \E f \in FormsAluno : novo_aluno(f[1], f[2], f[3])

DeletarAluno == \E a \in AlunoIds : deletar_aluno(a)

\* registrations one after the other, nothing else
SpecMatricula == Init /\ [][NovoAluno]_vars

\* The registrar's desk: students are registered, edited and removed, one
\* request after the other.  The forms name two of the five courses, which
\* is what a course change and a collision of numbers need.
\* <<nome, email, curso>>
FormsSecretaria ==
         ({NomeOk} \X EmailStrs \X {<<" ", "g", "e", "c", " ">>, <<"G", "E", "A">>})
    \cup ({None, <<" ">>} \X {<<"e", "1">>} \X {<<"G", "E", "A">>})
    \cup ({NomeOk} \X {None} \X {<<"G", "E", "A">>})
    \cup ({NomeOk} \X {<<"e", "1">>} \X CursoRuimStrs)

Registrar == \E f \in FormsSecretaria : novo_aluno(f[1], f[2], f[3])

EditarAluno ==
    \E a \in AlunoIds, f \in FormsSecretaria : editar_aluno(a, f[1], f[2], f[3])

NextFaculdade ==
    \/ Registrar
    \/ EditarAluno
    \/ DeletarAluno

SpecFaculdade == Init /\ [][NextFaculdade]_vars

(* -------------------- registrations side by side --------------------- *)
\* Each request has its own database session.  A request that has run
\* gerar_matricula holds the matriculation it computed; its INSERT reaches
\* the table at db.commit(), after whatever the other requests committed
\* in between.

\* novo_aluno from its first line to gerar_matricula; linhas is the number
\* of rows the table had when the request read it
novo_aluno_le(nome_form, email_form, curso_form) ==
    LET nome == strip(FormGet(nome_form))
        email == strip(FormGet(email_form))
        curso == upper(strip(FormGet(curso_form)))
    IN IF nome = <<>> \/ email = <<>> \/ curso = <<>>
       THEN SemEfeito("novo_aluno", "Preencha todos os campos.")
       ELSE IF curso \notin CURSOS_VALIDOS
       THEN SemEfeito("novo_aluno", "Curso invalido!")
       ELSE /\ Len(pendentes) < MaxPendentes
            /\ pendentes' = Append(pendentes,
                                [rota |-> "novo_aluno",
                                 nome |-> nome,
                                 email |-> email,
                                 curso |-> curso,
                                 matricula |-> gerar_matricula(alunos, curso),
                                 linhas |-> Len(alunos)])
            /\ UNCHANGED <<loja_db, session, faculdade_db, resposta>>

\* novo_aluno from db.add(aluno) to its end, for the i-th request in flight
novo_aluno_grava(i) ==
    LET p == pendentes[i]
    IN /\ p.rota = "novo_aluno"
       /\ pendentes' = SemPendente(i)
       /\ UNCHANGED <<loja_db, session>>
       /\ IF ViolaUnique(alunos, 0, p.email, p.matricula)
          THEN /\ resposta' = R("novo_aluno",
                                IF ChaveViolada(alunos, 0, p.email) = "email"
                                THEN "Erro ao cadastrar aluno: email"
                                ELSE "Erro ao cadastrar aluno: matricula")
               /\ UNCHANGED faculdade_db
          ELSE /\ alunos_seq + 1 <= MaxAlunos
               /\ NumeroDe(p.matricula, p.curso) <= MaxNumero
               /\ alunos_seq' = alunos_seq + 1
               /\ alunos' = Append(alunos, [id |-> alunos_seq + 1,
                                            nome |-> p.nome,
                                            email |-> p.email,
                                            curso |-> p.curso,
                                            matricula |-> p.matricula])
               /\ resposta' = R("novo_aluno", "Aluno cadastrado com sucesso!")

\* <<nome, email, curso>>
FormsInscricao ==
         ({NomeOk} \X {<<"e", "1">>, <<"e", "2">>}
                  \X {<<" ", "g", "e", "c", " ">>, <<"G", "E", "A">>})
    \cup {<<None, <<"e", "1">>, <<"G", "E", "A">>>>,
          <<NomeOk, <<"e", "1">>, <<"G", "E">>>>}

NovoAlunoLe == \E f \in FormsInscricao : novo_aluno_le(f[1], f[2], f[3])

NovoAlunoGrava == \E i \in 1..Len(pendentes) : novo_aluno_grava(i)

NextInscricao ==
    \/ NovoAlunoLe
    \/ NovoAlunoGrava

SpecInscricao == Init /\ [][NextInscricao]_vars

(* ============================== claims =============================== *)
OkLocacao == R("cadastrar_locacao", "Locacao registrada com sucesso!")
OkEdicao == R("editar_locacao", "Locacao atualizada com sucesso!")
OkDevolucao == R("devolver_locacao", "Devolucao registrada com sucesso!")
OkRemocao == R("deletar_locacao", "Locacao removida com sucesso!")
OkCompra == R("finalizar_compra", "Compra finalizada com sucesso!")

\* the rentals of game j that are out, counted on the table itself
Alugados(locs, j) ==
    Cardinality({l \in DOMAIN locs : locs[l].jogo_id = j /\ locs[l].status = "ALUGADO"})

\* the rows a step adds to the rental table, and the rows it changes
Novas == DOMAIN locacoes' \ DOMAIN locacoes
Mudadas == {l \in DOMAIN locacoes \cap DOMAIN locacoes' : locacoes'[l] # locacoes[l]}

\* C1: after every request each game's copias_disponiveis is its
\* copias_total minus the number of its rentals with status ALUGADO; a
\* request that registers an ALUGADO rental of a game lowers that game's
\* copias_disponiveis by exactly one, and the request that returns an
\* ALUGADO rental raises it by exactly one, back to the value before.
C1_DisponiveisSeguemLocacoes ==
    [][ /\ \A j \in DOMAIN jogos' :
              copias_disponiveis(jogos', locacoes', j)
                  = jogos'[j].copias_total - Alugados(locacoes', j)
        /\ resposta' = OkLocacao =>
              \A l \in Novas : locacoes'[l].status = "ALUGADO" =>
                  copias_disponiveis(jogos', locacoes', locacoes'[l].jogo_id)
                      = copias_disponiveis(jogos, locacoes, locacoes'[l].jogo_id) - 1
        /\ resposta' = OkDevolucao =>
              /\ Mudadas # {}
              /\ \A l \in Mudadas : locacoes[l].status = "ALUGADO" =>
                  copias_disponiveis(jogos', locacoes', locacoes[l].jogo_id)
                      = copias_disponiveis(jogos, locacoes, locacoes[l].jogo_id) + 1
      ]_vars

\* a game of 2 copies, one of them rented and just returned: 2 available again
C1_Witness ==
    /\ resposta = OkDevolucao
    /\ \E l \in DOMAIN locacoes :
          /\ locacoes[l].status = "DEVOLVIDO"
          /\ jogos[locacoes[l].jogo_id].copias_total = 2
          /\ copias_disponiveis(jogos, locacoes, locacoes[l].jogo_id) = 2

\* a checkout that got as far as the stock test: not stopped by an empty
\* cart or by the customer field
PassouCliente(r) ==
    /\ r.rota = "finalizar_compra"
    /\ r.msg \notin {"Carrinho vazio.",
                     "Selecione um cliente para finalizar a compra.",
                     "Cliente invalido.", "Cliente nao encontrado."}

\* the cart lines that ask for more copies than the game has available
LinhasSemEstoque ==
    {j \in DOMAIN get_cart(session) \cap DOMAIN jogos :
        jogos[j].copias_total - Alugados(locacoes, j) < get_cart(session)[j]}

\* C2: a checkout with a valid customer and a cart line that asks for more
\* than the game's available copies ends with the stock error and changes
\* no table and not the cart, wherever the failing line stands in the cart.
C2_CompraTudoOuNada ==
    [][ (PassouCliente(resposta') /\ LinhasSemEstoque # {}) =>
            /\ resposta'.msg = "Nao ha estoque suficiente."
            /\ UNCHANGED <<loja_db, session>>
      ]_vars

\* the stock error after a cart whose first line could have been served
C2_Witness ==
    /\ resposta = R("finalizar_compra", "Nao ha estoque suficiente.")
    /\ \E j1, j2 \in DOMAIN get_cart(session) \cap DOMAIN jogos :
          /\ j1 < j2
          /\ j1 \notin LinhasSemEstoque
          /\ j2 \in LinhasSemEstoque
    /\ DOMAIN pedidos = {}

\* C3: a checkout that succeeds lowers copias_total of every game in the
\* cart by exactly the cart quantity (never a clamped value), leaves the
\* other games as they were and empties the cart.
C3_CompraAbateExato ==
    [][ resposta' = OkCompra =>
            /\ DOMAIN jogos' = DOMAIN jogos
            /\ \A j \in DOMAIN jogos :
                  jogos'[j].copias_total =
                      jogos[j].copias_total -
                          (IF j \in DOMAIN get_cart(session)
                           THEN get_cart(session)[j] ELSE 0)
            /\ DOMAIN session' = {}
      ]_vars

\* after a purchase of two copies of one game, with another game untouched
C3_Witness ==
    /\ resposta = OkCompra
    /\ DOMAIN session = {}
    /\ \E i \in DOMAIN itens_pedido :
          /\ itens_pedido[i].quantidade = 2
          /\ \E j \in DOMAIN jogos :
                \A k \in DOMAIN itens_pedido : itens_pedido[k].jogo_id # j

\* C5: a request that registers a rental with status ALUGADO adds the
\* row only if the game had copias_disponiveis > 0 before it; the
\* request refused for want of copies adds no row; and a well-formed
\* request with status DEVOLVIDO adds its row whatever the availability.
C5_LocacaoExigeCopia ==
    [][ /\ resposta'.rota = "cadastrar_locacao" =>
              /\ \A l \in Novas : locacoes'[l].status = "ALUGADO" =>
                    jogos[locacoes'[l].jogo_id].copias_total
                        - Alugados(locacoes, locacoes'[l].jogo_id) > 0
              /\ resposta'.msg = "Nao ha copias disponiveis para alugar." =>
                    locacoes' = locacoes
        /\ resposta'.rota = "cadastrar_locacao" =>
            \A c \in DOMAIN clientes, j \in DOMAIN jogos :
              cadastrar_locacao(py_str(c), py_str(j), DataOk, <<>>, "DEVOLVIDO", FALSE) =>
                  /\ resposta' = OkLocacao
                  /\ \E l \in Novas :
                        locacoes'[l].status = "DEVOLVIDO" /\ locacoes'[l].jogo_id = j
      ]_vars

\* a rental recorded as returned for a game with no copy available
C5_Witness ==
    /\ resposta = OkLocacao
    /\ LET l == MaxOf(DOMAIN locacoes)
       IN /\ locacoes[l].status = "DEVOLVIDO"
          /\ copias_disponiveis(jogos, locacoes, locacoes[l].jogo_id) <= 0

\* C6: copias_total of every game is >= 0.
C6_CopiasNaoNegativas == \A j \in DOMAIN jogos : jogos[j].copias_total >= 0

\* C7: the status of every rental row is ALUGADO or DEVOLVIDO.
C7_StatusValido ==
    \A l \in DOMAIN locacoes : locacoes[l].status \in {"ALUGADO", "DEVOLVIDO"}

\* C8: a rental row has a data_devolucao_real exactly when its status is
\* DEVOLVIDO; devolver_locacao sets it to today; an edit to DEVOLVIDO sets
\* it to the date of the form, or to today when the form has none; an
\* edit to another status clears it; an edit refused for its date changes
\* no row.
C8_DataRealSeDevolvido ==
    [][ /\ \A l \in DOMAIN locacoes' :
              (locacoes'[l].data_devolucao_real # NULL)
                  <=> (locacoes'[l].status = "DEVOLVIDO")
        /\ resposta' = OkDevolucao =>
              \A l \in Mudadas :
                  /\ locacoes'[l].status = "DEVOLVIDO"
                  /\ locacoes'[l].data_devolucao_real = Hoje
        /\ resposta' = R("editar_locacao", "Data de devolucao real invalida.") =>
              locacoes' = locacoes
        /\ resposta'.rota = "editar_locacao" =>
            \A l \in DOMAIN locacoes :
              /\ editar_locacao(l, "DEVOLVIDO", DataValida, FALSE) =>
                    locacoes'[l].data_devolucao_real = <<2026, 10, 30>>
              /\ editar_locacao(l, "DEVOLVIDO", <<>>, FALSE) =>
                    locacoes'[l].data_devolucao_real = Hoje
              /\ editar_locacao(l, "ALUGADO", None, FALSE) =>
                    /\ locacoes'[l].status = "ALUGADO"
                    /\ locacoes'[l].data_devolucao_real = NULL
      ]_vars

\* a rental edited to DEVOLVIDO with the date the form gave
C8_Witness ==
    /\ resposta = OkEdicao
    /\ \E l \in DOMAIN locacoes :
          /\ locacoes[l].status = "DEVOLVIDO"
          /\ locacoes[l].data_devolucao_real = <<2026, 10, 30>>

\* C9: every rental row can be deleted, whatever its status; the request
\* removes that row and no other, changes no game, raises the game's
\* copias_disponiveis by one when the row was ALUGADO and leaves it as it
\* was otherwise.
C9_RemocaoLiberaCopia ==
    [][ /\ resposta'.rota = "deletar_locacao" =>
              \A l \in DOMAIN locacoes :
                  deletar_locacao(l, FALSE) => l \notin DOMAIN locacoes'
        /\ resposta' = OkRemocao =>
              /\ jogos' = jogos
              /\ \E l \in DOMAIN locacoes :
                    /\ DOMAIN locacoes' = DOMAIN locacoes \ {l}
                    /\ \A o \in DOMAIN locacoes' : locacoes'[o] = locacoes[o]
                    /\ \A j \in DOMAIN jogos :
                          copias_disponiveis(jogos', locacoes', j) =
                              copias_disponiveis(jogos, locacoes, j) +
                                  (IF locacoes[l].jogo_id = j /\ locacoes[l].status = "ALUGADO"
                                   THEN 1 ELSE 0)
      ]_vars

\* a rental removed while another rental of the same game is still out
C9_Witness ==
    /\ resposta = OkRemocao
    /\ \E l \in DOMAIN locacoes :
          /\ locacoes[l].status = "ALUGADO"
          /\ copias_disponiveis(jogos, locacoes, locacoes[l].jogo_id) = 1
          /\ jogos[locacoes[l].jogo_id].copias_total = 2

\* C10: a checkout request empties the cart only when it ends in success,
\* and then an order was committed; a checkout whose commit raises, like
\* every other checkout that does not succeed, leaves the tables and the
\* cart as they were.
C10_CarrinhoSoAposCommit ==
    [][ resposta'.rota = "finalizar_compra" =>
            IF resposta' = OkCompra
            THEN /\ DOMAIN session' = {}
                 /\ DOMAIN pedidos' # DOMAIN pedidos
            ELSE UNCHANGED <<loja_db, session>>
      ]_vars

\* a checkout that passed the stock test and failed in its commit
C10_Witness ==
    /\ resposta = R("finalizar_compra", "Erro ao finalizar compra")
    /\ DOMAIN session # {}
    /\ LinhasSemEstoque = {}
    /\ DOMAIN get_cart(session) \cap DOMAIN jogos # {}

\* C4: with registrations only, one after the other, the k-th student of
\* a course has the matriculation <course>k, whatever was registered in
\* other courses in between, and no two students share a matriculation.
C4_MatriculaSequencial ==
    /\ \A c \in CURSOS_VALIDOS :
          LET do_curso == SelectSeq(alunos, LAMBDA a : a.curso = c)
          IN \A k \in 1..Len(do_curso) : do_curso[k].matricula = c \o <<Digitos[k + 1]>>
    /\ \A i, j \in 1..Len(alunos) :
          alunos[i].matricula = alunos[j].matricula => i = j

\* GEC1, then a student of another course, then GEC2
C4_Witness ==
    /\ resposta = R("novo_aluno", "Aluno cadastrado com sucesso!")
    /\ Len(alunos) = 3
    /\ alunos[1].matricula = <<"G", "E", "C", "1">>
    /\ alunos[2].curso # <<"G", "E", "C">>
    /\ alunos[3].matricula = <<"G", "E", "C", "2">>


\* the rows a step adds to the order tables
PedidosNovos == DOMAIN pedidos' \ DOMAIN pedidos
ItensNovos == DOMAIN itens_pedido' \ DOMAIN itens_pedido

\* C11: a checkout that succeeds adds exactly one order, with status
\* CONCLUIDO and a stored customer, and exactly one order line per entry of
\* the cart, of that order and with the entry's quantity, also when the
\* cart holds the id of a game that is not in the table.
C11_UmaLinhaPorEntrada ==
    [][ resposta' = OkCompra =>
            LET cart == get_cart(session)
            IN /\ Cardinality(PedidosNovos) = 1
               /\ \A p \in PedidosNovos :
                     /\ pedidos'[p].status = "CONCLUIDO"
                     /\ pedidos'[p].cliente_id \in DOMAIN clientes
               /\ Cardinality(ItensNovos) = Cardinality(DOMAIN cart)
               /\ \A j \in DOMAIN cart :
                     \E i \in ItensNovos :
                        /\ itens_pedido'[i].jogo_id = j
                        /\ itens_pedido'[i].quantidade = cart[j]
                        /\ itens_pedido'[i].pedido_id \in PedidosNovos
      ]_vars


GEC == <<"G", "E", "C">>
GEA == <<"G", "E", "A">>

\* a course of the fixed set, and the course followed by a positive number
BemFormado(a) ==
    /\ a.curso \in CURSOS_VALIDOS
    /\ startswith(a.matricula, a.curso)
    /\ LET numero == SubSeq(a.matricula, Len(a.curso) + 1, Len(a.matricula))
       IN AllDigits(numero) /\ DigitsToNat(numero) >= 1

\* a form with a field missing or blank, or with a course not of the set
FormRuim(f) ==
    \/ \E k \in 1..3 : strip(FormGet(f[k])) = <<>>
    \/ upper(strip(FormGet(f[3]))) \notin CURSOS_VALIDOS

\* C12: after every register, edit or delete request each stored student
\* has a course of the fixed set and, as matriculation, that course
\* followed by a positive number; a request whose form lacks a field or
\* names no course of the set leaves the table as it was (a step that
\* changes the table is the request of no such form).
C12_CursoEMatriculaValidos ==
    [][ /\ \A i \in 1..Len(alunos') : BemFormado(alunos'[i])
        /\ resposta'.msg \in {"Preencha todos os campos.", "Curso invalido!"} =>
              alunos' = alunos
        /\ alunos' # alunos =>
              \A f \in {g \in FormsSecretaria : FormRuim(g)} :
                 /\ ~novo_aluno(f[1], f[2], f[3])
                 /\ \A a \in AlunoIds : ~editar_aluno(a, f[1], f[2], f[3])
      ]_vars

\* the student left after GEA1 was removed, and an edit naming no course
C12_Witness ==
    /\ resposta = R("editar_aluno", "Curso invalido!")
    /\ Len(alunos) = 1
    /\ alunos[1].matricula = GEA \o <<"2">>

\* C13: with requests one after the other, the matriculation
\* gerar_matricula returns for a course is the matriculation of no stored
\* student, and no registration or edit is refused for the matricula key.
C13_MatriculaNuncaRepetida ==
    /\ \A c \in CURSOS_VALIDOS : \A i \in 1..Len(alunos) :
          alunos[i].matricula # gerar_matricula(alunos, c)
    /\ resposta.msg \notin {"Erro ao cadastrar aluno: matricula",
                            "Erro ao atualizar aluno: matricula"}

\* one more than the number of the course's student of highest id
Seguinte(db, c) ==
    LET S == {i \in 1..Len(db) : db[i].curso = c}
    IN IF S = {} THEN 1
       ELSE LET u == CHOOSE i \in S : \A k \in S : db[k].id <= db[i].id
            IN NumeroDe(db[u].matricula, c) + 1

\* C18: an edit that is accepted changes one row only; that row keeps its
\* id and, when the submitted course is the student's course, its
\* matriculation; when the course changes the matriculation becomes the
\* new course followed by the next number of that course; an edit that is
\* refused changes no row.
C18_EdicaoMatricula ==
    [][ resposta'.rota = "editar_aluno" =>
          IF resposta'.msg \in {"Aluno atualizado.", "Aluno atualizado com nova matricula."}
          THEN /\ Len(alunos') = Len(alunos)
               /\ \E pos \in 1..Len(alunos) :
                     /\ \A k \in 1..Len(alunos) : k # pos => alunos'[k] = alunos[k]
                     /\ alunos'[pos].id = alunos[pos].id
                     /\ alunos'[pos].curso \in CURSOS_VALIDOS
                     /\ IF alunos'[pos].curso = alunos[pos].curso
                        THEN /\ alunos'[pos].matricula = alunos[pos].matricula
                             /\ resposta'.msg = "Aluno atualizado."
                        ELSE /\ alunos'[pos].matricula =
                                   alunos'[pos].curso
                                       \o py_str(Seguinte(alunos, alunos'[pos].curso))
                             /\ resposta'.msg = "Aluno atualizado com nova matricula."
          ELSE alunos' = alunos
      ]_vars

\* student 1 came back to its first course and got the number after
\* student 2's
C18_Witness ==
    /\ resposta = R("editar_aluno", "Aluno atualizado com nova matricula.")
    /\ \E i \in 1..Len(alunos) :
          /\ alunos[i].id = 1
          /\ alunos[i].matricula = GEC \o <<"3">>
    /\ \E i \in 1..Len(alunos) : alunos[i].matricula = GEC \o <<"2">>


\* C14: two registrations in flight for the same course that read the
\* same table carry the same matriculation; the commit of a request whose
\* matriculation is already stored is rolled back and adds no student,
\* while any other commit adds the one student of the request; and no two
\* stored students share a matriculation.
C14_CorridaDeMatricula ==
    [][ /\ \A i, j \in 1..Len(pendentes') :
              (pendentes'[i].curso = pendentes'[j].curso
                  /\ pendentes'[i].linhas = pendentes'[j].linhas)
                => pendentes'[i].matricula = pendentes'[j].matricula
        /\ \A i, j \in 1..Len(alunos') :
              alunos'[i].matricula = alunos'[j].matricula => i = j
        /\ Len(pendentes') < Len(pendentes) =>
              \E i \in 1..Len(pendentes) :
                 /\ pendentes' = SemPendente(i)
                 /\ IF \E k \in 1..Len(alunos) :
                          alunos[k].matricula = pendentes[i].matricula
                    THEN /\ alunos' = alunos
                         /\ resposta'.msg \in {"Erro ao cadastrar aluno: email",
                                               "Erro ao cadastrar aluno: matricula"}
                    ELSE \/ /\ alunos' = alunos
                            /\ resposta'.msg = "Erro ao cadastrar aluno: email"
                         \/ /\ Len(alunos') = Len(alunos) + 1
                            /\ SubSeq(alunos', 1, Len(alunos)) = alunos
                            /\ alunos'[Len(alunos')].matricula = pendentes[i].matricula
      ]_vars

\* two requests read the empty table, one was committed as GEC1 and the
\* other, with another email, was refused for the matricula key
C14_Witness ==
    /\ resposta = R("novo_aluno", "Erro ao cadastrar aluno: matricula")
    /\ pendentes = <<>>
    /\ Len(alunos) = 1
    /\ alunos[1].matricula = GEC \o <<"1">>


\* C15: in every state the store and the cart can reach, when the stock
\* test of the checkout passes for every line of the cart, no line asks
\* for more copies than its game has in copias_total: the subtraction of
\* the checkout is not negative and its clamp has nothing to do.
C15_AbateSemClamp ==
    LET cart == get_cart(session)
    IN EstoqueSuficiente(Ordenado(DOMAIN cart), cart) =>
          \A j \in DOMAIN cart \cap DOMAIN jogos :
             jogos[j].copias_total - cart[j] >= 0

\* a checkout passed the stock test (its commit then failed, so the cart
\* is still there): one copy of the game is out, the cart asks for the other
C15_Witness ==
    /\ resposta = R("finalizar_compra", "Erro ao finalizar compra")
    /\ \E j \in DOMAIN get_cart(session) \cap DOMAIN jogos :
          /\ get_cart(session)[j] = 1
          /\ jogos[j].copias_total = 2
          /\ copias_disponiveis(jogos, locacoes, j) = 1


\* C16: in every state no game has more rentals with status ALUGADO than
\* copies: copias_disponiveis of every game is >= 0.  (Checked where no
\* game is edited and every status is ALUGADO or DEVOLVIDO, so that a
\* violation owes nothing to C6 or C7.)
C16_DisponiveisNaoNegativas ==
    \A j \in DOMAIN jogos : copias_disponiveis(jogos, locacoes, j) >= 0


\* C19: a devolver_locacao request for a rental that is DEVOLVIDO changes
\* nothing, so its status and its data_devolucao_real stay as they were;
\* for a rental that is ALUGADO it leaves the rental DEVOLVIDO; after any
\* devolver_locacao request for a stored rental that rental is DEVOLVIDO,
\* so that a second request finds nothing to change; and no
\* devolver_locacao request leaves a rental ALUGADO that was not.
C19_DevolucaoIdempotente ==
    [][ resposta'.rota = "devolver_locacao" =>
          /\ \A l \in DOMAIN locacoes :
                devolver_locacao(l, FALSE) =>
                   /\ l \in DOMAIN locacoes'
                   /\ locacoes'[l].status = "DEVOLVIDO"
                   /\ locacoes[l].status = "DEVOLVIDO" =>
                         /\ UNCHANGED <<loja_db, session>>
                         /\ resposta'.msg = "Essa locacao ja esta marcada como devolvida."
                   /\ locacoes[l].status = "ALUGADO" =>
                         /\ locacoes'[l].data_devolucao_real = Hoje
                         /\ resposta' = OkDevolucao
          /\ \A l \in DOMAIN locacoes' :
                locacoes'[l].status = "ALUGADO" =>
                   (l \in DOMAIN locacoes /\ locacoes[l].status = "ALUGADO")
      ]_vars

\* a second return of a rental that an edit had returned on 2026-10-30:
\* the date is still that one
C19_Witness ==
    /\ resposta = R("devolver_locacao", "Essa locacao ja esta marcada como devolvida.")
    /\ \E l \in DOMAIN locacoes :
          /\ locacoes[l].status = "DEVOLVIDO"
          /\ locacoes[l].data_devolucao_real = <<2026, 10, 30>>
    /\ \A l \in DOMAIN locacoes : locacoes[l].status = "DEVOLVIDO"

\* the quantity an add request asks for
Pedida(q) == IF q = None THEN 1 ELSE IF py_int(q).val <= 0 THEN 1 ELSE py_int(q).val

\* C20: every entry of the cart has a quantity >= 1; an add request with a
\* readable quantity raises the entry of its game by that quantity, or by
\* 1 when the quantity is <= 0, and leaves the other entries as they were;
\* a remove request deletes the whole entry of its game, or leaves the
\* cart as it was when the game is not in it.
C20_CarrinhoPositivo ==
    [][ /\ \A k \in DOMAIN session' : session'[k] >= 1
        /\ resposta'.rota = "adicionar_ao_carrinho" =>
              \A j \in 1..MaxJogos, q \in QuantidadeStrs \ {<<"x">>} :
                 adicionar_ao_carrinho(j, q) =>
                    LET antes == get_cart(session)
                        depois == get_cart(session')
                    IN /\ DOMAIN depois = DOMAIN antes \cup {j}
                       /\ depois[j] = (IF j \in DOMAIN antes THEN antes[j] ELSE 0) + Pedida(q)
                       /\ \A o \in DOMAIN antes \ {j} : depois[o] = antes[o]
        /\ resposta'.rota = "remover_do_carrinho" =>
              \A j \in 1..MaxJogos :
                 remover_do_carrinho(j) =>
                    LET antes == get_cart(session)
                        depois == get_cart(session')
                    IN /\ DOMAIN depois = DOMAIN antes \ {j}
                       /\ \A o \in DOMAIN depois : depois[o] = antes[o]
                       /\ j \notin DOMAIN antes => session' = session
      ]_vars

\* one game was removed from a cart of two; the other keeps its 2 copies
C20_Witness ==
    /\ resposta = R("remover_do_carrinho", "Item removido do carrinho.")
    /\ DOMAIN get_cart(session) = {2}
    /\ get_cart(session)[2] = 2


\* C17: when checkouts of the same game overlap and commit, each commit
\* lowers the stored copias_total of every game the request read and
\* tested by the quantity it sells, so that
\* after both the game has its first value minus the two quantities; and
\* the game's copias_disponiveis is not negative after a commit.
C17_ComprasJuntasAbatemAmbas ==
    [][ (resposta' = OkCompra /\ Len(pendentes') < Len(pendentes)) =>
          \E i \in 1..Len(pendentes) :
             /\ pendentes' = SemPendente(i)
             /\ \A j \in DOMAIN pendentes[i].jogos_map :
                   /\ jogos'[j].copias_total
                         = jogos[j].copias_total - pendentes[i].cart[j]
                   /\ copias_disponiveis(jogos', locacoes', j) >= 0
      ]_vars

=============================================================================
